---- MODULE Spec2Model ----
(***************************************************************************)
(* Clustering/evaluation_metrics.ipynb as a state machine.                 *)
(*                                                                         *)
(* The notebook is a list of code cells that share one Python namespace.   *)
(* The state is that namespace (the globals the cells assign), the output  *)
(* of the cell executed last, and the selected cell, which is the one      *)
(* executed next.  Three cells assign the name predicted_labels;           *)
(* labels_from records which of them was executed last.                    *)
(* There is one action per code cell, and one for selecting a cell.  The   *)
(* metric functions the cells import from sklearn.metrics are operators    *)
(* that compute what the library computes; Python floats are exact         *)
(* rationals <<numerator, denominator>>.                                   *)
(*                                                                         *)
(* The literals of the cells (the clusters, the label lists, the data      *)
(* matrix) are the inputs.  nb holds them: the literals of the repository, *)
(* or the repository's notebook with the literals of one cell replaced by  *)
(* a bounded input.                                                        *)
(***************************************************************************)
EXTENDS Integers, Sequences, FiniteSets, TLC

VARIABLES nb, pc, clusters, total_points, majority_sum,
          true_labels, predicted_labels, labels_from, data, score, out

vars == <<nb, pc, clusters, total_points, majority_sum,
          true_labels, predicted_labels, labels_from, data, score, out>>

----------------------------------------------------------------------------
(* Bounds of the inputs that replace the notebook's literals.              *)

MaxLen == 3
MaxClusters == 2
MaxCount == 2
MaxPoints == 4
MaxCoord == 2

----------------------------------------------------------------------------
(* Python values.                                                          *)

\* The one-character strings 'A', 'B', 'C' are their code points, so that labels
\* of both kinds (str and int) compare with = and sort as numpy sorts them.
A == 65
B == 66
C == 67

\* A global name that no cell has assigned yet, and an assigned one.
Undefined == <<>>
Def(v) == <<v>>
Val(g) == g[1]

\* What a call gives: a returned float, or a raised exception with its type and
\* the function that raises it.
Ok(q) == [ok |-> TRUE, val |-> q, exc |-> "", where |-> ""]
Raise(type, where) == [ok |-> FALSE, val |-> <<0, 1>>, exc |-> type, where |-> where]

----------------------------------------------------------------------------
(* Exact arithmetic for Python floats.                                     *)

Abs(x) == IF x < 0 THEN -x ELSE x

RECURSIVE GCD(_, _)
GCD(a, b) == IF b = 0 THEN a ELSE GCD(b, a % b)

\* n/d in lowest terms with a positive denominator (d # 0).
Q(n, d) ==
    LET g == GCD(Abs(n), Abs(d))
        s == IF d < 0 THEN -1 ELSE 1
    IN  <<(s * n) \div g, (s * d) \div g>>

QInt(n) == <<n, 1>>
QAdd(x, y) == Q(x[1] * y[2] + y[1] * x[2], x[2] * y[2])
QSub(x, y) == Q(x[1] * y[2] - y[1] * x[2], x[2] * y[2])
QMul(x, y) == Q(x[1] * y[1], x[2] * y[2])
QDiv(x, y) == Q(x[1] * y[2], x[2] * y[1])
QLeq(x, y) == x[1] * y[2] <= y[1] * x[2]
QLess(x, y) == x[1] * y[2] < y[1] * x[2]
QMax(x, y) == IF QLeq(x, y) THEN y ELSE x
QAbs(x) == <<Abs(x[1]), x[2]>>
QZero == QInt(0)
QOne == QInt(1)

RECURSIVE SumSet(_, _)
\* sum(f[x] for x in S), over integers
SumSet(f, S) ==
    IF S = {} THEN 0
    ELSE LET x == CHOOSE y \in S : TRUE IN f[x] + SumSet(f, S \ {x})

RECURSIVE SumSeq(_)
SumSeq(s) == IF s = <<>> THEN 0 ELSE Head(s) + SumSeq(Tail(s))

MaxOf(S) == CHOOSE x \in S : \A y \in S : y <= x

Range(s) == {s[i] : i \in DOMAIN s}

\* Format2f cutting the digits after the second instead of rounding
Format2f_Truncating(x) == {(100 * x[1]) \div x[2]}

\* f"{x:.2f}": the decimal with two places nearest to x, as a number of
\* hundredths.  A float that is exactly halfway (a denominator of 8 in lowest
\* terms) goes to the even neighbour; a rational halfway that no float represents
\* exactly is printed from the nearest float, which lies on either side.
Format2f(x) ==
    LET n == x[1]
        d == x[2]
        lo == (100 * n) \div d
        twice == 200 * n - 2 * lo * d
    IN  IF twice < d THEN {lo}
        ELSE IF twice > d THEN {lo + 1}
        ELSE IF 8 % d = 0 THEN {IF lo % 2 = 0 THEN lo ELSE lo + 1}
        ELSE {lo, lo + 1}

----------------------------------------------------------------------------
(* sklearn.metrics.cluster: the label-based scores of cell c277aa40.       *)

\* np.unique(labels): the distinct labels
Unique(labels) == Range(labels)

\* ContingencyMatrix counting the points of a true label whatever their cluster
ContingencyMatrix_IgnoringCluster(lt, lp) ==
    [ij \in Unique(lt) \X Unique(lp) |->
        Cardinality({k \in DOMAIN lt : lt[k] = ij[1]})]

\* contingency_matrix(labels_true, labels_pred): n_ij, the number of points with
\* true label i and cluster j
ContingencyMatrix(lt, lp) ==
    [ij \in Unique(lt) \X Unique(lp) |->
        Cardinality({k \in DOMAIN lt : lt[k] = ij[1] /\ lp[k] = ij[2]})]

\* contingency.sum(axis=1) and contingency.sum(axis=0): a_i and b_j
RowSums(lt, lp) == [i \in Unique(lt) |-> Cardinality({k \in DOMAIN lt : lt[k] = i})]
ColSums(lt, lp) == [j \in Unique(lp) |-> Cardinality({k \in DOMAIN lp : lp[k] = j})]

SumSquares(f) == SumSet([x \in DOMAIN f |-> f[x] * f[x]], DOMAIN f)

\* pair_confusion_matrix(labels_true, labels_pred), over ORDERED pairs of
\* distinct points: C[0,0] apart in both, C[0,1] together in the clusters only,
\* C[1,0] together in the true labels only, C[1,1] together in both.
PairConfusionMatrix(lt, lp) ==
    LET n == Len(lt)
        sum_squares == SumSquares(ContingencyMatrix(lt, lp))
        c11 == sum_squares - n
        c01 == SumSquares(ColSums(lt, lp)) - sum_squares
        c10 == SumSquares(RowSums(lt, lp)) - sum_squares
        c00 == n * n - c01 - c10 - sum_squares
    IN  [tn |-> c00, fp |-> c01, fn |-> c10, tp |-> c11]

\* check_clusterings: both label arrays have the same length
CheckClusterings(lt, lp) == Len(lt) = Len(lp)

\* rand_score without its limit cases: no pair gives 0.0
rand_score_NoLimitCase(lt, lp) ==
    IF ~CheckClusterings(lt, lp) THEN Raise("ValueError", "check_clusterings")
    ELSE LET cm == PairConfusionMatrix(lt, lp)
             numerator == cm.tn + cm.tp
             denominator == cm.tn + cm.fp + cm.fn + cm.tp
         IN  IF denominator = 0 THEN Ok(QZero) ELSE Ok(Q(numerator, denominator))

\* rand_score(labels_true, labels_pred)
rand_score(lt, lp) ==
    IF ~CheckClusterings(lt, lp) THEN Raise("ValueError", "check_clusterings")
    ELSE LET cm == PairConfusionMatrix(lt, lp)
             numerator == cm.tn + cm.tp
             denominator == cm.tn + cm.fp + cm.fn + cm.tp
         IN  IF numerator = denominator \/ denominator = 0
             THEN Ok(QOne)
             ELSE Ok(Q(numerator, denominator))

\* adjusted_rand_score taking full agreement for perfect only where some pair
\* exists, and scoring no pair at all 0.0
adjusted_rand_score_NoPairIsZero(lt, lp) ==
    IF ~CheckClusterings(lt, lp) THEN Raise("ValueError", "check_clusterings")
    ELSE LET cm == PairConfusionMatrix(lt, lp)
         IN  IF cm.tn + cm.fp + cm.fn + cm.tp = 0 THEN Ok(QZero)
             ELSE IF cm.fn = 0 /\ cm.fp = 0 THEN Ok(QOne)
             ELSE Ok(Q(2 * (cm.tp * cm.tn - cm.fn * cm.fp),
                       (cm.tp + cm.fn) * (cm.fn + cm.tn)
                         + (cm.tp + cm.fp) * (cm.fp + cm.tn)))

\* adjusted_rand_score scoring 0.0 where its quotient has denominator 0, in
\* place of the test for full agreement
adjusted_rand_score_ZeroDenominatorIsZero(lt, lp) ==
    IF ~CheckClusterings(lt, lp) THEN Raise("ValueError", "check_clusterings")
    ELSE LET cm == PairConfusionMatrix(lt, lp)
             denominator == (cm.tp + cm.fn) * (cm.fn + cm.tn)
                              + (cm.tp + cm.fp) * (cm.fp + cm.tn)
         IN  IF denominator = 0 THEN Ok(QZero)
             ELSE Ok(Q(2 * (cm.tp * cm.tn - cm.fn * cm.fp), denominator))

\* adjusted_rand_score without the factor 2 of its numerator
adjusted_rand_score_Unscaled(lt, lp) ==
    IF ~CheckClusterings(lt, lp) THEN Raise("ValueError", "check_clusterings")
    ELSE LET cm == PairConfusionMatrix(lt, lp)
         IN  IF cm.fn = 0 /\ cm.fp = 0
             THEN Ok(QOne)
             ELSE Ok(Q(cm.tp * cm.tn - cm.fn * cm.fp,
                       (cm.tp + cm.fn) * (cm.fn + cm.tn)
                         + (cm.tp + cm.fp) * (cm.fp + cm.tn)))

\* adjusted_rand_score(labels_true, labels_pred)
adjusted_rand_score(lt, lp) ==
    IF ~CheckClusterings(lt, lp) THEN Raise("ValueError", "check_clusterings")
    ELSE LET cm == PairConfusionMatrix(lt, lp)
         IN  IF cm.fn = 0 /\ cm.fp = 0
             THEN Ok(QOne)
             ELSE Ok(Q(2 * (cm.tp * cm.tn - cm.fn * cm.fp),
                       (cm.tp + cm.fn) * (cm.fn + cm.tn)
                         + (cm.tp + cm.fp) * (cm.fp + cm.tn)))

----------------------------------------------------------------------------
(* sklearn.metrics.cluster: the information scores of cell 45de1db1.  A     *)
(* natural logarithm is a number of 1/LnScale, rounded at the primes and    *)
(* additive over the prime factors, so that log(m * n) = log(m) + log(n).   *)

LnScale == 10000

\* np.log(p) * LnScale of the primes that divide a count of at most 17 points
LnPrime ==
    (2 :> 6931) @@ (3 :> 10986) @@ (5 :> 16094) @@ (7 :> 19459)
        @@ (11 :> 23979) @@ (13 :> 25649) @@ (17 :> 28332)

RECURSIVE Ln(_)
\* np.log(n) * LnScale, n >= 1
Ln(n) ==
    IF n = 1 THEN 0
    ELSE LET p == CHOOSE q \in DOMAIN LnPrime :
                      n % q = 0 /\ \A r \in DOMAIN LnPrime : n % r = 0 => q <= r
         IN  LnPrime[p] + Ln(n \div p)

\* entropy(labels) * LnScale * len(labels): -sum(pi * (log(pi) - log(pi_sum)))
EntropySum(labels) ==
    LET pi == [i \in Unique(labels) |-> Cardinality({k \in DOMAIN labels : labels[k] = i})]
    IN  IF Cardinality(Unique(labels)) <= 1 THEN 0
        ELSE SumSet([i \in DOMAIN pi |-> pi[i] * (Ln(Len(labels)) - Ln(pi[i]))],
                    DOMAIN pi)

\* mutual_info_score * LnScale * len(labels): the sum over the non-zero cells of
\* the contingency table of n_ij * (log(n_ij) - log(n) - log(a_i * b_j) + 2 log(n)),
\* 0.0 at once if either labelling has a single value, and clipped at 0.0
MutualInfoSum(lt, lp) ==
    LET contingency == ContingencyMatrix(lt, lp)
        pi == RowSums(lt, lp)
        pj == ColSums(lt, lp)
        n == Len(lt)
        nz == {ij \in DOMAIN contingency : contingency[ij] # 0}
        mi == SumSet([ij \in nz |->
                         contingency[ij]
                           * (Ln(contingency[ij]) - Ln(n)
                                - Ln(pi[ij[1]] * pj[ij[2]]) + Ln(n) + Ln(n))], nz)
    IN  IF Cardinality(DOMAIN pi) = 1 \/ Cardinality(DOMAIN pj) = 1 THEN 0
        ELSE IF mi < 0 THEN 0 ELSE mi

\* mutual_info_score(labels_true, labels_pred)
mutual_info_score(lt, lp) ==
    IF ~CheckClusterings(lt, lp) THEN Raise("ValueError", "check_clusterings")
    ELSE IF Len(lt) = 0 THEN Ok(QZero)
    ELSE Ok(Q(MutualInfoSum(lt, lp), LnScale * Len(lt)))

\* normalized_mutual_info_score without its limit case of two single-valued
\* labellings
normalized_mutual_info_score_NoLimitCase(lt, lp) ==
    IF ~CheckClusterings(lt, lp) THEN Raise("ValueError", "check_clusterings")
    ELSE IF Len(lt) = 0 THEN Ok(QOne)
    ELSE LET mi == MutualInfoSum(lt, lp)
             h_true == EntropySum(lt)
             h_pred == EntropySum(lp)
         IN  IF mi = 0 THEN Ok(QZero)
             ELSE Ok(Q(2 * mi, h_true + h_pred))

\* normalized_mutual_info_score(labels_true, labels_pred), average_method
\* 'arithmetic': mi / mean(h_true, h_pred); 1.0 if both labellings have a single
\* value (or none), 0.0 if the mutual information is 0
normalized_mutual_info_score(lt, lp) ==
    IF ~CheckClusterings(lt, lp) THEN Raise("ValueError", "check_clusterings")
    ELSE IF Cardinality(Unique(lt)) <= 1 /\ Cardinality(Unique(lt)) = Cardinality(Unique(lp))
    THEN Ok(QOne)
    ELSE LET mi == MutualInfoSum(lt, lp)
             h_true == EntropySum(lt)
             h_pred == EntropySum(lp)
         IN  IF mi = 0 THEN Ok(QZero)
             ELSE Ok(Q(2 * mi, h_true + h_pred))

----------------------------------------------------------------------------
(* The purity computation of cell 991d6435.  A dict is a function from its  *)
(* keys to its values.                                                      *)

\* sum(cluster.values())
SumValues(cluster) == SumSet(cluster, DOMAIN cluster)

\* MaxValues taking the least count: min(cluster.values())
MaxValues_Min(cluster) ==
    CHOOSE x \in {cluster[k] : k \in DOMAIN cluster} :
        \A k \in DOMAIN cluster : x <= cluster[k]

\* max(cluster.values()), of a dict with at least one key
MaxValues(cluster) == MaxOf({cluster[k] : k \in DOMAIN cluster})

\* TotalPoints counting the labels of a cluster: sum(len(cluster) ...)
TotalPoints_CountingKeys(cs) == SumSeq([i \in DOMAIN cs |-> Cardinality(DOMAIN cs[i])])

\* line 74: sum(sum(cluster.values()) for cluster in clusters)
TotalPoints(cs) == SumSeq([i \in DOMAIN cs |-> SumValues(cs[i])])

\* line 77: sum(max(cluster.values()) for cluster in clusters); max() of an
\* empty dict's values raises ValueError
MajorityRaises(cs) == \E i \in DOMAIN cs : DOMAIN cs[i] = {}
MajoritySum(cs) == SumSeq([i \in DOMAIN cs |-> MaxValues(cs[i])])

\* line 80: majority_sum / total_points
Purity(majority, total) ==
    IF total = 0 THEN Raise("ZeroDivisionError", "division")
    ELSE Ok(Q(majority, total))

----------------------------------------------------------------------------
(* sklearn.metrics.cluster: the distance-based scores of cells 10403d1e,    *)
(* 247c9c9e and 5c4b5a72.  X is a list of rows, a row a tuple of integer    *)
(* coordinates; the Euclidean distance is that of one-column rows.          *)

\* check_X_y(X, labels): at least one row, and as many labels as rows
CheckXy(X, labels) == Len(X) >= 1 /\ Len(X) = Len(labels)

RECURSIVE SortedSeq(_)
\* the elements of a set of labels in increasing order
SortedSeq(S) ==
    IF S = {} THEN <<>>
    ELSE LET m == CHOOSE x \in S : \A y \in S : x <= y
         IN  <<m>> \o SortedSeq(S \ {m})

\* LabelEncoder().fit(labels).classes_
Classes(labels) == SortedSeq(Unique(labels))

\* LabelEncoder().fit_transform(labels): the index in classes_ (0-based)
FitTransform(labels) ==
    LET cls == Classes(labels)
    IN  [i \in DOMAIN labels |->
            (CHOOSE k \in DOMAIN cls : cls[k] = labels[i]) - 1]

\* CheckNumberOfLabels asking for three clusters: 2 < n_labels
CheckNumberOfLabels_AtLeastThree(n_labels, n_samples) ==
    2 < n_labels /\ n_labels < n_samples

\* CheckNumberOfLabels letting every row be a cluster: n_labels <= n_samples
CheckNumberOfLabels_Inclusive(n_labels, n_samples) ==
    1 < n_labels /\ n_labels <= n_samples

\* check_number_of_labels(n_labels, n_samples)
CheckNumberOfLabels(n_labels, n_samples) == 1 < n_labels /\ n_labels < n_samples

RECURSIVE SumTo(_, _)
\* f[1] + ... + f[n], over integers
SumTo(f, n) == IF n = 0 THEN 0 ELSE f[n] + SumTo(f, n - 1)

RECURSIVE QSumTo(_, _)
\* f[1] + ... + f[n], over rationals
QSumTo(f, n) == IF n = 0 THEN QZero ELSE QAdd(f[n], QSumTo(f, n - 1))

\* the least of a non-empty set of rationals
QMinOf(S) == CHOOSE q \in S : \A r \in S : QLeq(q, r)
QMaxOf(S) == CHOOSE q \in S : \A r \in S : QLeq(r, q)

\* np.bincount(labels): the number of rows of each encoded label
LabelFreqs(enc, n_labels) ==
    [k \in 0..(n_labels - 1) |-> Cardinality({j \in DOMAIN enc : enc[j] = k})]

\* pairwise Euclidean distance of two rows of X (one column, integers)
RowDistance(u, v) == Abs(u[1] - v[1])

\* Euclidean distance of two one-column rows of floats
Distance(u, v) == QAbs(QSub(u[1], v[1]))

\* np.sum((u - v) ** 2)
SquaredDistance(u, v) ==
    QSumTo([c \in DOMAIN u |-> QMul(QSub(u[c], v[c]), QSub(u[c], v[c]))], Len(u))

QRow(row) == [c \in DOMAIN row |-> QInt(row[c])]

\* X[enc == k].mean(axis=0); with k = -1, X.mean(axis=0)
Mean(X, enc, k) ==
    LET rows == {i \in DOMAIN X : k = -1 \/ enc[i] = k}
    IN  [c \in DOMAIN X[1] |->
            Q(SumTo([i \in DOMAIN X |-> IF i \in rows THEN X[i][c] ELSE 0], Len(X)),
              Cardinality(rows))]

\* SilhouetteSamples leaving out the first cluster, not the row's own, when it
\* looks for the nearest other cluster
SilhouetteSamples_SkippingFirst(X, enc, n_labels) ==
    LET n == Len(X)
        ks == 0..(n_labels - 1)
        label_freqs == LabelFreqs(enc, n_labels)
        clust_dists ==
            [i \in 1..n |-> [k \in ks |->
                SumTo([j \in 1..n |->
                          IF enc[j] = k THEN RowDistance(X[i], X[j]) ELSE 0], n)]]
        inter_clust_dists ==
            [i \in 1..n |->
                QMinOf({Q(clust_dists[i][k], label_freqs[k]) : k \in ks \ {0}})]
    IN  [i \in 1..n |->
            LET denom == label_freqs[enc[i]] - 1
            IN  IF denom = 0 THEN QZero
                ELSE LET intra == Q(clust_dists[i][enc[i]], denom)
                         m == QMax(intra, inter_clust_dists[i])
                     IN  IF m = QZero THEN QZero
                         ELSE QDiv(QSub(inter_clust_dists[i], intra), m)]

\* SilhouetteSamples dividing by the smaller of the two mean distances
SilhouetteSamples_DividingByMin(X, enc, n_labels) ==
    LET n == Len(X)
        ks == 0..(n_labels - 1)
        label_freqs == LabelFreqs(enc, n_labels)
        \* the sum of the distances from row i to the rows of cluster k
        clust_dists ==
            [i \in 1..n |-> [k \in ks |->
                SumTo([j \in 1..n |->
                          IF enc[j] = k THEN RowDistance(X[i], X[j]) ELSE 0], n)]]
        inter_clust_dists ==
            [i \in 1..n |->
                QMinOf({Q(clust_dists[i][k], label_freqs[k]) : k \in ks \ {enc[i]}})]
    IN  [i \in 1..n |->
            LET denom == label_freqs[enc[i]] - 1
            IN  IF denom = 0 THEN QZero
                ELSE LET intra == Q(clust_dists[i][enc[i]], denom)
                         m == IF QLeq(intra, inter_clust_dists[i]) THEN intra
                              ELSE inter_clust_dists[i]
                     IN  IF m = QZero THEN QZero
                         ELSE QDiv(QSub(inter_clust_dists[i], intra), m)]

\* silhouette_samples(X, labels), after the checks: nan (a cluster of one row,
\* or both mean distances 0) becomes 0 in np.nan_to_num
SilhouetteSamples(X, enc, n_labels) ==
    LET n == Len(X)
        ks == 0..(n_labels - 1)
        label_freqs == LabelFreqs(enc, n_labels)
        \* the sum of the distances from row i to the rows of cluster k
        clust_dists ==
            [i \in 1..n |-> [k \in ks |->
                SumTo([j \in 1..n |->
                          IF enc[j] = k THEN RowDistance(X[i], X[j]) ELSE 0], n)]]
        inter_clust_dists ==
            [i \in 1..n |->
                QMinOf({Q(clust_dists[i][k], label_freqs[k]) : k \in ks \ {enc[i]}})]
    IN  [i \in 1..n |->
            LET denom == label_freqs[enc[i]] - 1
            IN  IF denom = 0 THEN QZero
                ELSE LET intra == Q(clust_dists[i][enc[i]], denom)
                         m == QMax(intra, inter_clust_dists[i])
                     IN  IF m = QZero THEN QZero
                         ELSE QDiv(QSub(inter_clust_dists[i], intra), m)]

\* silhouette_score(X, labels)
silhouette_score(X, labels) ==
    IF ~CheckXy(X, labels) THEN Raise("ValueError", "check_X_y")
    ELSE LET enc == FitTransform(labels)
             n_labels == Len(Classes(labels))
             n_samples == Len(labels)
         IN  IF ~CheckNumberOfLabels(n_labels, n_samples)
             THEN Raise("ValueError", "check_number_of_labels")
             ELSE Ok(QDiv(QSumTo(SilhouetteSamples(X, enc, n_labels), n_samples),
                          QInt(n_samples)))

\* davies_bouldin_score dividing by 1 where two centroids are at distance 0
davies_bouldin_score_ZeroDistanceAsOne(X, labels) ==
    IF ~CheckXy(X, labels) THEN Raise("ValueError", "check_X_y")
    ELSE LET enc == FitTransform(labels)
             n_labels == Len(Classes(labels))
             n_samples == Len(labels)
             ks == 0..(n_labels - 1)
             label_freqs == LabelFreqs(enc, n_labels)
             centroids == [k \in ks |-> Mean(X, enc, k)]
             intra_dists ==
                 [k \in ks |->
                     QDiv(QSumTo([i \in DOMAIN X |->
                                     IF enc[i] = k
                                     THEN Distance(QRow(X[i]), centroids[k])
                                     ELSE QZero], n_samples),
                          QInt(label_freqs[k]))]
             centroid_distances ==
                 [k \in ks |-> [l \in ks |-> Distance(centroids[k], centroids[l])]]
             ratios ==
                 [k \in ks |-> {IF centroid_distances[k][l] = QZero
                                THEN QAdd(intra_dists[k], intra_dists[l])
                                ELSE QDiv(QAdd(intra_dists[k], intra_dists[l]),
                                          centroid_distances[k][l]) : l \in ks}]
             scores == [i \in 1..n_labels |-> QMaxOf(ratios[i - 1])]
         IN  IF ~CheckNumberOfLabels(n_labels, n_samples)
             THEN Raise("ValueError", "check_number_of_labels")
             ELSE IF (\A k \in ks : intra_dists[k] = QZero)
                      \/ (\A k, l \in ks : centroid_distances[k][l] = QZero)
             THEN Ok(QZero)
             ELSE Ok(QDiv(QSumTo(scores, n_labels), QInt(n_labels)))

\* davies_bouldin_score(X, labels)
davies_bouldin_score(X, labels) ==
    IF ~CheckXy(X, labels) THEN Raise("ValueError", "check_X_y")
    ELSE LET enc == FitTransform(labels)
             n_labels == Len(Classes(labels))
             n_samples == Len(labels)
             ks == 0..(n_labels - 1)
             label_freqs == LabelFreqs(enc, n_labels)
             centroids == [k \in ks |-> Mean(X, enc, k)]
             intra_dists ==
                 [k \in ks |->
                     QDiv(QSumTo([i \in DOMAIN X |->
                                     IF enc[i] = k
                                     THEN Distance(QRow(X[i]), centroids[k])
                                     ELSE QZero], n_samples),
                          QInt(label_freqs[k]))]
             centroid_distances ==
                 [k \in ks |-> [l \in ks |-> Distance(centroids[k], centroids[l])]]
             \* combined_intra_dists / centroid_distances, a distance of 0
             \* replaced by np.inf
             ratios ==
                 [k \in ks |-> {IF centroid_distances[k][l] = QZero THEN QZero
                                ELSE QDiv(QAdd(intra_dists[k], intra_dists[l]),
                                          centroid_distances[k][l]) : l \in ks}]
             scores == [i \in 1..n_labels |-> QMaxOf(ratios[i - 1])]
         IN  IF ~CheckNumberOfLabels(n_labels, n_samples)
             THEN Raise("ValueError", "check_number_of_labels")
             ELSE IF (\A k \in ks : intra_dists[k] = QZero)
                      \/ (\A k, l \in ks : centroid_distances[k][l] = QZero)
             THEN Ok(QZero)
             ELSE Ok(QDiv(QSumTo(scores, n_labels), QInt(n_labels)))

\* calinski_harabasz_score(X, labels)
calinski_harabasz_score(X, labels) ==
    IF ~CheckXy(X, labels) THEN Raise("ValueError", "check_X_y")
    ELSE LET enc == FitTransform(labels)
             n_labels == Len(Classes(labels))
             n_samples == Len(labels)
             label_freqs == LabelFreqs(enc, n_labels)
             mean == Mean(X, enc, -1)
             mean_k == [k \in 0..(n_labels - 1) |-> Mean(X, enc, k)]
             extra_disp ==
                 QSumTo([i \in 1..n_labels |->
                            QMul(QInt(label_freqs[i - 1]),
                                 SquaredDistance(mean_k[i - 1], mean))], n_labels)
             intra_disp ==
                 QSumTo([i \in DOMAIN X |->
                            SquaredDistance(QRow(X[i]), mean_k[enc[i]])], n_samples)
         IN  IF ~CheckNumberOfLabels(n_labels, n_samples)
             THEN Raise("ValueError", "check_number_of_labels")
             ELSE IF intra_disp = QZero THEN Ok(QOne)
             ELSE Ok(QDiv(QMul(extra_disp, QInt(n_samples - n_labels)),
                          QMul(intra_disp, QInt(n_labels - 1))))

----------------------------------------------------------------------------
(* The literals of the notebook's cells, and the inputs that replace them.  *)

\* cell 991d6435, lines 67-71
ClustersLiteral ==
    << (A :> 5 @@ B :> 1), (A :> 1 @@ B :> 4 @@ C :> 1), (A :> 2 @@ C :> 3) >>

\* cell c277aa40, lines 128-130 and 132-134
TrueLabelsLiteral == <<A, A, A, A, A, B, A, B, B, B, B, C, A, A, C, C, C>>
PredictedLabelsLiteral == <<0, 0, 0, 0, 0, 0, 1, 1, 1, 1, 1, 1, 2, 2, 2, 2, 2>>

\* cell 05eaf5da, lines 229-236: three blobs of rows, around the centres of
\* lines 230-232, stacked in order, and the labels 0, 1, 2 of the blobs.  The
\* draws of np.random.randn are inputs: here two rows a blob, one column.
BlobsData == << <<0>>, <<1>>, <<5>>, <<6>>, <<10>>, <<11>> >>
BlobsLabels == <<0, 0, 1, 1, 2, 2>>

TrueLabelValues == {A, B, C}
ClusterIds == {0, 1, 2}
ClusterKeys == {A, B}

\* [n_ij-style dicts]: every dict over ClusterKeys with counts 1..MaxCount
Dicts == UNION {[K -> 1..MaxCount] : K \in SUBSET ClusterKeys}

\* lists of at most MaxClusters dicts that hold at most MaxLen points in all
ClusterInputs ==
    {cs \in UNION {[1..n -> Dicts] : n \in 0..MaxClusters} : TotalPoints(cs) <= MaxLen}

\* true label lists that name their labels in the order of first occurrence
\* (A, then B, then C), as the notebook's list does
FirstOccurrenceOrder(t) ==
    \A i \in DOMAIN t :
        \/ t[i] = A
        \/ \E j \in 1..(i - 1) : t[j] = t[i] - 1

\* label lists of equal length, the clustering possibly the true labelling
\* itself, and lists whose lengths differ by one
LabelInputs ==
    UNION {
        LET T == {t \in [1..n -> TrueLabelValues] : FirstOccurrenceOrder(t)}
        IN  (T \X [1..n -> ClusterIds])
              \cup {<<t, t>> : t \in T}
              \cup (IF n = 0 THEN {} ELSE T \X [1..(n - 1) -> ClusterIds])
        : n \in 0..MaxLen }
    \cup {<<TrueLabelsLiteral, TrueLabelsLiteral>>}

\* data matrices of one column with a cluster identifier for every row, the
\* rows in nondecreasing order (of the coordinate, then of the identifier)
DataInputs ==
    UNION {
        {xl \in [1..n -> 0..MaxCoord] \X [1..n -> ClusterIds] :
            \A i \in 1..(n - 1) :
                \/ xl[1][i] < xl[1][i + 1]
                \/ xl[1][i] = xl[1][i + 1] /\ xl[2][i] <= xl[2][i + 1]}
        : n \in 0..MaxPoints }

DataMatrix(x) == [i \in DOMAIN x |-> <<x[i]>>]

Notebook ==
    [clusters |-> ClustersLiteral,
     true_labels |-> TrueLabelsLiteral,
     predicted_labels |-> PredictedLabelsLiteral,
     data |-> BlobsData,
     data_labels |-> BlobsLabels]

----------------------------------------------------------------------------
(* The kernel: the cells, executed from the top.                            *)

Output(cell, res, text) == [cell |-> cell, res |-> res, text |-> text]

Init ==
    /\ \/ nb = Notebook
       \/ \E cs \in ClusterInputs : nb = [Notebook EXCEPT !.clusters = cs]
       \/ \E tp \in LabelInputs :
             nb = [Notebook EXCEPT !.true_labels = tp[1], !.predicted_labels = tp[2]]
       \/ \E xl \in DataInputs :
             nb = [Notebook EXCEPT !.data = DataMatrix(xl[1]), !.data_labels = xl[2]]
    /\ pc = "991d6435"
    /\ clusters = Undefined
    /\ total_points = Undefined
    /\ majority_sum = Undefined
    /\ true_labels = Undefined
    /\ predicted_labels = Undefined
    /\ labels_from = ""
    /\ data = Undefined
    /\ score = Undefined
    /\ out = Output("", <<>>, <<>>)

\* cell 991d6435: purity of the clusters
Cell_991d6435 ==
    /\ pc = "991d6435"
    /\ pc' = "c277aa40"
    /\ clusters' = Def(nb.clusters)
    /\ total_points' = Def(TotalPoints(nb.clusters))
    /\ IF MajorityRaises(nb.clusters)
       THEN /\ majority_sum' = majority_sum
            /\ out' = Output("991d6435", <<Raise("ValueError", "max")>>, <<>>)
       ELSE /\ majority_sum' = Def(MajoritySum(nb.clusters))
            /\ LET r == Purity(MajoritySum(nb.clusters), TotalPoints(nb.clusters))
               IN  IF r.ok
                   THEN \E t \in Format2f(r.val) :
                            out' = Output("991d6435", <<r>>, <<t>>)
                   ELSE out' = Output("991d6435", <<r>>, <<>>)
    /\ UNCHANGED <<nb, true_labels, predicted_labels, labels_from, data, score>>

\* Cell_c277aa40 with its cluster list under a name of its own: the global
\* predicted_labels keeps its binding
Cell_c277aa40_OwnName ==
    /\ pc = "c277aa40"
    /\ pc' = "45de1db1"
    /\ true_labels' = Def(nb.true_labels)
    /\ predicted_labels' = predicted_labels
    /\ labels_from' = "c277aa40"
    /\ LET ri == rand_score(nb.true_labels, nb.predicted_labels)
           ari == adjusted_rand_score(nb.true_labels, nb.predicted_labels)
       IN  IF ~ri.ok THEN out' = Output("c277aa40", <<ri>>, <<>>)
           ELSE IF ~ari.ok
           THEN \E t1 \in Format2f(ri.val) :
                    out' = Output("c277aa40", <<ri, ari>>, <<t1>>)
           ELSE \E t1 \in Format2f(ri.val), t2 \in Format2f(ari.val) :
                    out' = Output("c277aa40", <<ri, ari>>, <<t1, t2>>)
    /\ UNCHANGED <<nb, clusters, total_points, majority_sum, data, score>>

\* cell c277aa40: Rand index and adjusted Rand index
Cell_c277aa40 ==
    /\ pc = "c277aa40"
    /\ pc' = "45de1db1"
    /\ true_labels' = Def(nb.true_labels)
    /\ predicted_labels' = Def(nb.predicted_labels)
    /\ labels_from' = "c277aa40"
    /\ LET ri == rand_score(nb.true_labels, nb.predicted_labels)
           ari == adjusted_rand_score(nb.true_labels, nb.predicted_labels)
       IN  IF ~ri.ok THEN out' = Output("c277aa40", <<ri>>, <<>>)
           ELSE IF ~ari.ok
           THEN \E t1 \in Format2f(ri.val) :
                    out' = Output("c277aa40", <<ri, ari>>, <<t1>>)
           ELSE \E t1 \in Format2f(ri.val), t2 \in Format2f(ari.val) :
                    out' = Output("c277aa40", <<ri, ari>>, <<t1, t2>>)
    /\ UNCHANGED <<nb, clusters, total_points, majority_sum, data, score>>

\* cell 45de1db1: mutual information and normalized mutual information, of the
\* same two lists, assigned again
Cell_45de1db1 ==
    /\ pc = "45de1db1"
    /\ pc' = "05eaf5da"
    /\ true_labels' = Def(nb.true_labels)
    /\ predicted_labels' = Def(nb.predicted_labels)
    /\ labels_from' = "45de1db1"
    /\ LET mi == mutual_info_score(nb.true_labels, nb.predicted_labels)
           nmi == normalized_mutual_info_score(nb.true_labels, nb.predicted_labels)
       IN  IF ~mi.ok THEN out' = Output("45de1db1", <<mi>>, <<>>)
           ELSE IF ~nmi.ok
           THEN \E t1 \in Format2f(mi.val) :
                    out' = Output("45de1db1", <<mi, nmi>>, <<t1>>)
           ELSE \E t1 \in Format2f(mi.val), t2 \in Format2f(nmi.val) :
                    out' = Output("45de1db1", <<mi, nmi>>, <<t1, t2>>)
    /\ UNCHANGED <<nb, clusters, total_points, majority_sum, data, score>>

\* cell 05eaf5da: the data matrix and its cluster assignment (and a plot)
Cell_05eaf5da ==
    /\ pc = "05eaf5da"
    /\ pc' = "10403d1e"
    /\ data' = Def(nb.data)
    /\ predicted_labels' = Def(nb.data_labels)
    /\ labels_from' = "05eaf5da"
    /\ out' = Output("05eaf5da", <<>>, <<>>)
    /\ UNCHANGED <<nb, clusters, total_points, majority_sum, true_labels, score>>

\* the arguments data, predicted_labels of a call, evaluated left to right: a
\* name that no cell has assigned raises NameError
ArgumentsRaise == data = Undefined \/ predicted_labels = Undefined
NameError == Raise("NameError", IF data = Undefined THEN "data" ELSE "predicted_labels")

\* ScoreCell keeping the first score: a later cell prints the score that is
\* bound already and calls nothing
ScoreCell_KeepingFirstScore(cell, result) ==
    IF score # Undefined
    THEN /\ score' = score
         /\ \E t \in Format2f(Val(score)) : out' = Output(cell, <<Ok(Val(score))>>, <<t>>)
    ELSE \E r \in {IF ArgumentsRaise THEN NameError ELSE result} :
             IF r.ok
             THEN /\ score' = Def(r.val)
                  /\ \E t \in Format2f(r.val) : out' = Output(cell, <<r>>, <<t>>)
             ELSE /\ score' = score
                  /\ out' = Output(cell, <<r>>, <<>>)

\* score = <metric>(data, predicted_labels); print(f"...{score:.2f}")
ScoreCell(cell, result) ==
    \E r \in {IF ArgumentsRaise THEN NameError ELSE result} :
        IF r.ok
        THEN /\ score' = Def(r.val)
             /\ \E t \in Format2f(r.val) : out' = Output(cell, <<r>>, <<t>>)
        ELSE /\ score' = score
             /\ out' = Output(cell, <<r>>, <<>>)

\* cell 10403d1e: silhouette score
Cell_10403d1e ==
    /\ pc = "10403d1e"
    /\ pc' = "247c9c9e"
    /\ ScoreCell("10403d1e", silhouette_score(Val(data), Val(predicted_labels)))
    /\ UNCHANGED <<nb, clusters, total_points, majority_sum,
                   true_labels, predicted_labels, labels_from, data>>

\* cell 247c9c9e: Davies-Bouldin index
Cell_247c9c9e ==
    /\ pc = "247c9c9e"
    /\ pc' = "5c4b5a72"
    /\ ScoreCell("247c9c9e", davies_bouldin_score(Val(data), Val(predicted_labels)))
    /\ UNCHANGED <<nb, clusters, total_points, majority_sum,
                   true_labels, predicted_labels, labels_from, data>>

\* cell 5c4b5a72: Calinski-Harabasz index
Cell_5c4b5a72 ==
    /\ pc = "5c4b5a72"
    /\ pc' = "done"
    /\ ScoreCell("5c4b5a72", calinski_harabasz_score(Val(data), Val(predicted_labels)))
    /\ UNCHANGED <<nb, clusters, total_points, majority_sum,
                   true_labels, predicted_labels, labels_from, data>>

\* Run All: the code cells from the top, in the order of the notebook
Next ==
    \/ Cell_991d6435
    \/ Cell_c277aa40
    \/ Cell_45de1db1
    \/ Cell_05eaf5da
    \/ Cell_10403d1e
    \/ Cell_247c9c9e
    \/ Cell_5c4b5a72

Spec == Init /\ [][Next]_vars

\* The code cells of the notebook, in its order.
Cells == <<"991d6435", "c277aa40", "45de1db1", "05eaf5da",
           "10403d1e", "247c9c9e", "5c4b5a72">>

\* The user selects another cell: the next execution is that cell's.
Select ==
    /\ \E c \in Range(Cells) : c # pc /\ pc' = c
    /\ UNCHANGED <<nb, clusters, total_points, majority_sum, true_labels,
                   predicted_labels, labels_from, data, score, out>>

\* Interactive use: any cell may be executed at any time, any number of times.
NextInteractive ==
    \/ Cell_991d6435
    \/ Cell_c277aa40
    \/ Cell_45de1db1
    \/ Cell_05eaf5da
    \/ Cell_10403d1e
    \/ Cell_247c9c9e
    \/ Cell_5c4b5a72
    \/ Select

\* a fresh kernel on the notebook as the repository has it
InitInteractive ==
    /\ Init
    /\ nb = Notebook

SpecInteractive == InitInteractive /\ [][NextInteractive]_vars

----------------------------------------------------------------------------
(* Properties of the label-based cells.                                     *)

\* the label lists that cell c277aa40 has assigned and scored
RandCellRan == out.cell = "c277aa40"
TrueL == Val(true_labels)
PredL == Val(predicted_labels)

Choose2(n) == (n * (n - 1)) \div 2

\* a pair of points agrees: same cluster and same true label, or neither
Agrees(lt, lp, i, j) ==
    \/ lt[i] = lt[j] /\ lp[i] = lp[j]
    \/ lt[i] # lt[j] /\ lp[i] # lp[j]

\* the agreeing pairs among all unordered pairs of points, by enumeration
AgreeingPairs(lt, lp) ==
    SumTo([i \in DOMAIN lt |->
              Cardinality({j \in (i + 1)..Len(lt) : Agrees(lt, lp, i, j)})], Len(lt))

\* sum(C(f[x], 2)) over a table of counts
SumChoose2(f) == SumSet([x \in DOMAIN f |-> Choose2(f[x])], DOMAIN f)

\* sum(C(n_ij,2)) + [C(N,2) - sum(C(a_i,2)) - sum(C(b_j,2)) + sum(C(n_ij,2))]
ContingencyAgreements(lt, lp) ==
    LET together == SumChoose2(ContingencyMatrix(lt, lp))
    IN  together + (Choose2(Len(lt)) - SumChoose2(RowSums(lt, lp))
                      - SumChoose2(ColSums(lt, lp)) + together)

\* C1: for label lists of equal length N >= 2, the agreeing pairs counted over all
\* C(N,2) unordered pairs are as many as the contingency-table expression gives,
\* and they are the numerator (over ordered pairs, so twice) of rand_score.
C1_PairCountIsContingencySum ==
    (RandCellRan /\ Len(TrueL) = Len(PredL) /\ Len(TrueL) >= 2) =>
        LET agreeing == AgreeingPairs(TrueL, PredL)
            cm == PairConfusionMatrix(TrueL, PredL)
        IN  /\ agreeing = ContingencyAgreements(TrueL, PredL)
            /\ cm.tn + cm.tp = 2 * agreeing
            /\ out.res[1] = Ok(Q(agreeing, Choose2(Len(TrueL))))

\* the notebook's lists: 92 of the 136 pairs agree, some in each of the two ways
C1_Witness ==
    /\ RandCellRan
    /\ TrueL = TrueLabelsLiteral /\ PredL = PredictedLabelsLiteral
    /\ AgreeingPairs(TrueL, PredL) = 92
    /\ ContingencyAgreements(TrueL, PredL) = 92
    /\ SumChoose2(ContingencyMatrix(TrueL, PredL)) = 20

\* lp is lt with its labels renamed one-to-one
IsRenaming(lt, lp) ==
    /\ Len(lt) = Len(lp)
    /\ \A i, j \in DOMAIN lt : (lt[i] = lt[j]) <=> (lp[i] = lp[j])

\* C2: the adjusted Rand index of a labelling and a one-to-one renaming of it is
\* 1.0, for every N >= 1 (one label for all points, a label per point, N = 1).
C2_RenamingScoresOne ==
    (RandCellRan /\ Len(TrueL) >= 1 /\ IsRenaming(TrueL, PredL)) =>
        /\ Len(out.res) = 2
        /\ out.res[2] = Ok(QOne)
        /\ out.text[2] = 100

\* three points, two of them with one label: a renaming that is not degenerate
C2_Witness ==
    /\ RandCellRan
    /\ Len(TrueL) = 3 /\ IsRenaming(TrueL, PredL)
    /\ Cardinality(Unique(TrueL)) = 2
    /\ out.res[2] = Ok(QOne)

\* x in [0, 1]
InUnitInterval(x) == QLeq(QZero, x) /\ QLeq(x, QOne)

\* C3 as stated: for N >= 1 the Rand index is the quotient agreements / C(N,2),
\* which is defined, lies in [0,1] and is 1.0 for identical labellings.
C3_Original ==
    (RandCellRan /\ Len(TrueL) = Len(PredL) /\ Len(TrueL) >= 1) =>
        /\ Choose2(Len(TrueL)) # 0
        /\ out.res[1] = Ok(Q(AgreeingPairs(TrueL, PredL), Choose2(Len(TrueL))))
        /\ InUnitInterval(out.res[1].val)
        /\ (TrueL = PredL => out.res[1] = Ok(QOne))

\* C3 (amended): for N >= 1 rand_score returns a value in [0,1], 1.0 for identical
\* labellings; it is agreements / C(N,2) for N >= 2, and for N = 1, where there is
\* no pair and no quotient, it is 1.0.
C3_RandIndexInUnitInterval ==
    (RandCellRan /\ Len(TrueL) = Len(PredL) /\ Len(TrueL) >= 1) =>
        /\ out.res[1].ok
        /\ InUnitInterval(out.res[1].val)
        /\ (TrueL = PredL => out.res[1] = Ok(QOne))
        /\ IF Len(TrueL) >= 2
           THEN out.res[1] = Ok(Q(AgreeingPairs(TrueL, PredL), Choose2(Len(TrueL))))
           ELSE Choose2(Len(TrueL)) = 0 /\ out.res[1] = Ok(QOne)

\* identical labellings of three points with two labels
C3_Witness ==
    /\ RandCellRan
    /\ Len(TrueL) = 3 /\ TrueL = PredL
    /\ Cardinality(Unique(TrueL)) = 2
    /\ out.res[1] = Ok(QOne)

----------------------------------------------------------------------------
(* Properties of the purity cell.                                           *)

PurityCellRan == out.cell = "991d6435"

\* C4: for the clusters {A:5,B:1}, {A:1,B:4,C:1}, {A:2,C:3} the majority sum is
\* 12, the total is 17, the purity is 12/17 and it prints as 0.71.
C4_WorkedExamplePurity ==
    (PurityCellRan /\ Val(clusters) = ClustersLiteral) =>
        /\ majority_sum = Def(12)
        /\ total_points = Def(17)
        /\ out.res = <<Ok(<<12, 17>>)>>
        /\ out.text = <<71>>

C4_Witness ==
    /\ PurityCellRan
    /\ Val(clusters) = ClustersLiteral
    /\ out.text = <<71>>

\* C5: for the notebook's label lists the Rand index, 92 agreeing pairs of the
\* C(17,2) = 136, prints as 0.68.
C5_NotebookRandIndex ==
    (RandCellRan /\ TrueL = TrueLabelsLiteral /\ PredL = PredictedLabelsLiteral) =>
        /\ Choose2(Len(TrueL)) = 136
        /\ out.res[1] = Ok(Q(AgreeingPairs(TrueL, PredL), 136))
        /\ out.text[1] = 68

C5_Witness ==
    /\ RandCellRan
    /\ TrueL = TrueLabelsLiteral /\ PredL = PredictedLabelsLiteral
    /\ out.text[1] = 68

\* (pairs_together - expected_index) / (max_index - expected_index), from the
\* contingency sums; max_index # expected_index
ContingencyARI(lt, lp) ==
    LET pairs_together == QInt(SumChoose2(ContingencyMatrix(lt, lp)))
        sum_a == SumChoose2(RowSums(lt, lp))
        sum_b == SumChoose2(ColSums(lt, lp))
        expected_index == Q(sum_a * sum_b, Choose2(Len(lt)))
        max_index == Q(sum_a + sum_b, 2)
    IN  QDiv(QSub(pairs_together, expected_index), QSub(max_index, expected_index))

\* C6: for the notebook's label lists the adjusted Rand index is
\* (pairs_together - expected_index) / (max_index - expected_index) of the
\* contingency sums, and prints as 0.24.
C6_NotebookAdjustedRandIndex ==
    (RandCellRan /\ TrueL = TrueLabelsLiteral /\ PredL = PredictedLabelsLiteral) =>
        /\ out.res[2] = Ok(ContingencyARI(TrueL, PredL))
        /\ out.text[2] = 24

C6_Witness ==
    /\ RandCellRan
    /\ TrueL = TrueLabelsLiteral /\ PredL = PredictedLabelsLiteral
    /\ out.res[2] = Ok(<<60, 247>>)
    /\ out.text[2] = 24

\* the clusters of N >= 1 points: at least one cluster, none of them empty
IsClustering(cs) == Len(cs) >= 1 /\ \A i \in DOMAIN cs : DOMAIN cs[i] # {}

\* every cluster holds one point
AllSingletons(cs) == \A i \in DOMAIN cs : SumValues(cs[i]) = 1

\* C7: for N >= 1 the purity lies in [0,1], and it is 1.0 when every point is a
\* cluster of its own, whatever the true labels are.
C7_PurityInUnitInterval ==
    (PurityCellRan /\ IsClustering(Val(clusters))) =>
        /\ out.res[1].ok
        /\ InUnitInterval(out.res[1].val)
        /\ (AllSingletons(Val(clusters)) => out.res[1] = Ok(QOne))

\* two singleton clusters with different true labels
C7_Witness ==
    /\ PurityCellRan
    /\ Len(Val(clusters)) = 2 /\ AllSingletons(Val(clusters))
    /\ DOMAIN Val(clusters)[1] # DOMAIN Val(clusters)[2]
    /\ out.res[1] = Ok(QOne)
    /\ out.text = <<100>>

\* C9: with N = 0 the purity computation gives no score, and it fails before it
\* reaches the division by N (it is the check of the input that fails).
C9_EmptyInputRejected ==
    (PurityCellRan /\ total_points = Def(0)) =>
        /\ ~out.res[1].ok
        /\ out.text = <<>>
        /\ out.res[1].where # "division"

----------------------------------------------------------------------------
(* Properties of the distance-based cells.                                  *)

SilhouetteCellRan == out.cell = "10403d1e"
DaviesBouldinCellRan == out.cell = "247c9c9e"
CalinskiHarabaszCellRan == out.cell = "5c4b5a72"
DataX == Val(data)
DataL == Val(predicted_labels)

\* one-to-one renamings of the cluster identifiers: an exchange of two of them,
\* and one onto identifiers that are neither contiguous nor zero-based and that
\* sort in a rotated order; as permutations of the order the two generate all
Renamings ==
    { (0 :> 1 @@ 1 :> 0 @@ 2 :> 2),
      (0 :> 4 @@ 1 :> 7 @@ 2 :> -1) }

Rename(f, labels) == [i \in DOMAIN labels |-> f[labels[i]]]

\* C8: where a distance-based score is returned, the same score is returned for
\* every one-to-one renaming of the cluster identifiers.
C8_RenamingInvariance ==
    \A f \in Renamings :
        /\ (SilhouetteCellRan /\ out.res[1].ok) =>
               silhouette_score(DataX, Rename(f, DataL)) = out.res[1]
        /\ (DaviesBouldinCellRan /\ out.res[1].ok) =>
               davies_bouldin_score(DataX, Rename(f, DataL)) = out.res[1]
        /\ (CalinskiHarabaszCellRan /\ out.res[1].ok) =>
               calinski_harabasz_score(DataX, Rename(f, DataL)) = out.res[1]

\* four rows in three clusters whose identifiers are not in row order, scored
\* above 0: the renamings reorder the encoded clusters
C8_Witness ==
    /\ SilhouetteCellRan
    /\ out.res[1].ok /\ QLess(QZero, out.res[1].val)
    /\ Len(DataX) = 4 /\ Unique(DataL) = ClusterIds
    /\ DataX[1] # DataX[4]
    /\ DataL[1] = 2 /\ DataL[4] = 0
    /\ \E f \in Renamings :
          FitTransform(Rename(f, DataL)) # FitTransform(DataL)

RECURSIVE QSumSet(_, _)
\* sum(f[x] for x in S), over rationals
QSumSet(f, S) ==
    IF S = {} THEN QZero
    ELSE LET x == CHOOSE y \in S : TRUE IN QAdd(f[x], QSumSet(f, S \ {x}))

\* between-cluster dispersion B: over the clusters, size times the squared
\* distance from the cluster's centroid to the centroid of all points
BetweenDispersion(X, L) ==
    LET n == Len(X)
        total == SumTo([i \in 1..n |-> X[i][1]], n)
        size(c) == Cardinality({i \in 1..n : L[i] = c})
        sum(c) == SumTo([i \in 1..n |-> IF L[i] = c THEN X[i][1] ELSE 0], n)
        term(c) == LET d == QSub(Q(sum(c), size(c)), Q(total, n))
                   IN  QMul(QInt(size(c)), QMul(d, d))
    IN  QSumSet([c \in Unique(L) |-> term(c)], Unique(L))

\* within-cluster dispersion W: over the points, the squared distance to the
\* centroid of the point's cluster
WithinDispersion(X, L) ==
    LET n == Len(X)
        size(c) == Cardinality({i \in 1..n : L[i] = c})
        sum(c) == SumTo([i \in 1..n |-> IF L[i] = c THEN X[i][1] ELSE 0], n)
        sq(i) == LET d == QSub(QInt(X[i][1]), Q(sum(L[i]), size(L[i])))
                 IN  QMul(d, d)
    IN  QSumTo([i \in 1..n |-> sq(i)], n)

\* C10: calinski_harabasz_score returns a score only when 1 < K < N, and then
\* (B / (K-1)) / (W / (N-K)) where W # 0; with K = 1 or K = N it fails in the
\* check of the number of labels and divides by nothing.
C10_CalinskiHarabaszNeedsClusters ==
    (CalinskiHarabaszCellRan /\ Len(DataX) >= 1 /\ Len(DataX) = Len(DataL)) =>
        LET K == Cardinality(Unique(DataL))
            N == Len(DataX)
            W == WithinDispersion(DataX, DataL)
        IN  /\ (K = 1 \/ K = N) =>
                   /\ out.res[1] = Raise("ValueError", "check_number_of_labels")
                   /\ out.text = <<>>
            /\ out.res[1].ok => (1 < K /\ K < N)
            /\ (out.res[1].ok /\ W # QZero) =>
                   out.res[1].val =
                       QDiv(QDiv(BetweenDispersion(DataX, DataL), QInt(K - 1)),
                            QDiv(W, QInt(N - K)))

\* every row a cluster of its own (K = N = 3): no score
C10_Witness ==
    /\ CalinskiHarabaszCellRan
    /\ Len(DataX) = 3 /\ Cardinality(Unique(DataL)) = 3
    /\ DataX[1] # DataX[3]
    /\ out.res[1] = Raise("ValueError", "check_number_of_labels")

----------------------------------------------------------------------------
(* The number of clusters a silhouette needs.                               *)

InsufficientClusters == Raise("ValueError", "check_number_of_labels")

\* as stated: all points in one cluster fail, two clusters or more give a score
C11_Original ==
    (SilhouetteCellRan /\ Len(DataX) >= 1 /\ Len(DataX) = Len(DataL)) =>
        LET K == Cardinality(Unique(DataL))
        IN  /\ K = 1 => (out.res[1] = InsufficientClusters /\ out.text = <<>>)
            /\ K >= 2 => out.res[1].ok

\* C11: silhouette_score fails in the check of the number of labels when all
\* points are in one cluster, and also when every point is a cluster of its own
\* (K = N); it returns a score for every input with 2 <= K <= N - 1.
C11_SilhouetteNeedsTwoToNMinusOne ==
    (SilhouetteCellRan /\ Len(DataX) >= 1 /\ Len(DataX) = Len(DataL)) =>
        LET K == Cardinality(Unique(DataL))
            N == Len(DataX)
        IN  /\ (K = 1 \/ K = N) =>
                   (out.res[1] = InsufficientClusters /\ out.text = <<>>)
            /\ (2 <= K /\ K <= N - 1) =>
                   (out.res[1].ok /\ out.text # <<>> /\ score = Def(out.res[1].val))

\* three rows at different places, each a cluster of its own: no score
C11_Witness ==
    /\ SilhouetteCellRan
    /\ Len(DataX) = 3 /\ Cardinality(Unique(DataL)) = 3
    /\ DataX[1] # DataX[2] /\ DataX[2] # DataX[3]
    /\ out.res[1] = InsufficientClusters
    /\ score = Undefined

----------------------------------------------------------------------------
(* The Davies-Bouldin index of clusters with identical centroids.           *)

\* the rows of cluster c, its centroid, and its scatter S_c: the mean distance
\* of its rows to the centroid
RowsOf(L, c) == {i \in DOMAIN L : L[i] = c}
Centroid(X, L, c) ==
    Q(SumTo([i \in DOMAIN X |-> IF L[i] = c THEN X[i][1] ELSE 0], Len(X)),
      Cardinality(RowsOf(L, c)))
Scatter(X, L, c) ==
    QDiv(QSumTo([i \in DOMAIN X |->
                    IF L[i] = c THEN QAbs(QSub(QInt(X[i][1]), Centroid(X, L, c)))
                    ELSE QZero], Len(X)),
         QInt(Cardinality(RowsOf(L, c))))
CentroidDistance(X, L, k, l) == QAbs(QSub(Centroid(X, L, k), Centroid(X, L, l)))

\* two distinct clusters have the same centroid
IdenticalCentroids(X, L) ==
    \E k, l \in Unique(L) : k # l /\ CentroidDistance(X, L, k, l) = QZero

\* the index with every pair of clusters at centroid distance 0 contributing
\* R_kl = 0: the mean over the clusters k of the greatest R_kl, l # k
IndexWithZeroForIdentical(X, L) ==
    LET R(k, l) == IF CentroidDistance(X, L, k, l) = QZero THEN QZero
                   ELSE QDiv(QAdd(Scatter(X, L, k), Scatter(X, L, l)),
                             CentroidDistance(X, L, k, l))
        D(k) == QMaxOf({R(k, l) : l \in Unique(L) \ {k}})
    IN  QDiv(QSumSet([k \in Unique(L) |-> D(k)], Unique(L)),
             QInt(Cardinality(Unique(L))))

ValidForIndex(X, L) ==
    /\ Len(X) >= 1 /\ Len(X) = Len(L)
    /\ 1 < Cardinality(Unique(L)) /\ Cardinality(Unique(L)) < Len(X)

----------------------------------------------------------------------------
(* The normalized mutual information of single-valued labellings.           *)

MutualInfoCellRan == out.cell = "45de1db1"

\* every cell of the contingency table has p_ij = p_i * p_j, that is
\* n_ij * N = a_i * b_j
Independent(lt, lp) ==
    \A i \in Unique(lt), j \in Unique(lp) :
        Cardinality({k \in DOMAIN lt : lt[k] = i /\ lp[k] = j}) * Len(lt)
            = Cardinality({k \in DOMAIN lt : lt[k] = i})
                * Cardinality({k \in DOMAIN lp : lp[k] = j})

\* C13: after cell 45de1db1, on lists of one length N >= 1: with all points in
\* one cluster and at least two true labels the labellings are independent,
\* H(pred) = 0 < H(true), and the normalized mutual information is 0.0; with a
\* single true label and a single cluster it is 1.0.
C13_SingleClusterNMI ==
    (MutualInfoCellRan /\ Len(TrueL) = Len(PredL) /\ Len(TrueL) >= 1) =>
        /\ (Cardinality(Unique(PredL)) = 1 /\ Cardinality(Unique(TrueL)) >= 2) =>
               /\ Independent(TrueL, PredL)
               /\ EntropySum(PredL) = 0 /\ EntropySum(TrueL) > 0
               /\ out.res = <<Ok(QZero), Ok(QZero)>>
               /\ out.text = <<0, 0>>
        /\ (Cardinality(Unique(PredL)) = 1 /\ Cardinality(Unique(TrueL)) = 1) =>
               /\ EntropySum(PredL) = 0 /\ EntropySum(TrueL) = 0
               /\ out.res = <<Ok(QZero), Ok(QOne)>>
               /\ out.text = <<0, 100>>

\* three points with one label, all in one cluster: 1.0 by the limit case
C13_Witness ==
    /\ MutualInfoCellRan
    /\ Len(TrueL) = 3 /\ Len(PredL) = 3
    /\ Cardinality(Unique(TrueL)) = 1 /\ Cardinality(Unique(PredL)) = 1
    /\ out.res[2] = Ok(QOne)

\* three points with two labels, all in one cluster: 0.0
C13_WitnessIndependent ==
    /\ MutualInfoCellRan
    /\ Len(TrueL) = 3 /\ Len(PredL) = 3
    /\ Cardinality(Unique(TrueL)) = 2 /\ Cardinality(Unique(PredL)) = 1
    /\ out.res[2] = Ok(QZero)

\* the notebook's lists: 0.39 and 0.36, as in the stored output of the cell
NotebookMutualInfo ==
    (MutualInfoCellRan /\ TrueL = TrueLabelsLiteral /\ PredL = PredictedLabelsLiteral) =>
        out.text = <<39, 36>>

----------------------------------------------------------------------------
(* The silhouette of a point.                                               *)

\* the mean distance from row i to the rows of cluster c other than i itself
MeanDistance(X, L, i, c) ==
    LET others == RowsOf(L, c) \ {i}
    IN  Q(SumTo([j \in DOMAIN X |-> IF j \in others THEN RowDistance(X[i], X[j]) ELSE 0],
                Len(X)),
          Cardinality(others))

\* a(i): 0 for a cluster of one row; b(i): the nearest other cluster
SilhouetteA(X, L, i) ==
    IF RowsOf(L, L[i]) = {i} THEN QZero ELSE MeanDistance(X, L, i, L[i])
SilhouetteB(X, L, i) ==
    QMinOf({MeanDistance(X, L, i, c) : c \in Unique(L) \ {L[i]}})

\* s(i) = (b(i) - a(i)) / max(a(i), b(i)), 0 if both are 0
SilhouetteS(X, L, i) ==
    LET a == SilhouetteA(X, L, i)
        b == SilhouetteB(X, L, i)
    IN  IF a = QZero /\ b = QZero THEN QZero ELSE QDiv(QSub(b, a), QMax(a, b))

\* s(i) as the library has it: 0 also for a row that is a cluster of its own
SilhouetteSOrZero(X, L, i) ==
    IF RowsOf(L, L[i]) = {i} THEN QZero ELSE SilhouetteS(X, L, i)

InMinusOneToOne(x) == QLeq(QInt(-1), x) /\ QLeq(x, QOne)

MeanOver(s, n) == QDiv(QSumTo(s, n), QInt(n))

\* as stated: the score is the mean of s(i) with a(i) = 0 for a cluster of one
C14_Original ==
    (SilhouetteCellRan /\ out.res[1].ok) =>
        LET s == [i \in DOMAIN DataX |-> SilhouetteS(DataX, DataL, i)]
        IN  /\ \A i \in DOMAIN DataX : InMinusOneToOne(s[i])
            /\ out.res[1].val = MeanOver(s, Len(DataX))
            /\ InMinusOneToOne(out.res[1].val)

\* C14: where silhouette_score returns a score it is the mean of s(i), with
\* s(i) = 0 for a row that is a cluster of its own and for a(i) = b(i) = 0, and
\* s(i) = (b(i) - a(i)) / max(a(i), b(i)) otherwise; every s(i) and the score
\* lie in [-1, 1].
C14_SilhouetteInRange ==
    (SilhouetteCellRan /\ out.res[1].ok) =>
        LET s == [i \in DOMAIN DataX |-> SilhouetteSOrZero(DataX, DataL, i)]
        IN  /\ \A i \in DOMAIN DataX : InMinusOneToOne(s[i])
            /\ out.res[1].val = MeanOver(s, Len(DataX))
            /\ InMinusOneToOne(out.res[1].val)

\* a score with a row that is a cluster of its own away from the others, and a
\* row that has a(i) = b(i) = 0
C14_Witness ==
    /\ SilhouetteCellRan /\ out.res[1].ok
    /\ InMinusOneToOne(out.res[1].val)
    /\ \E i \in DOMAIN DataX :
          RowsOf(DataL, DataL[i]) = {i} /\ SilhouetteB(DataX, DataL, i) # QZero
    /\ \E i \in DOMAIN DataX :
          /\ RowsOf(DataL, DataL[i]) # {i}
          /\ SilhouetteA(DataX, DataL, i) = QZero
          /\ SilhouetteB(DataX, DataL, i) = QZero

----------------------------------------------------------------------------
(* The degenerate case of the adjusted Rand index.                          *)

\* max_index = expected_index and pairs_together = expected_index, of the
\* contingency sums, each multiplied out by 2 * C(N,2) and C(N,2) (N >= 2)
MaxIsExpected(lt, lp) ==
    (SumChoose2(RowSums(lt, lp)) + SumChoose2(ColSums(lt, lp))) * Choose2(Len(lt))
        = 2 * SumChoose2(RowSums(lt, lp)) * SumChoose2(ColSums(lt, lp))
TogetherIsExpected(lt, lp) ==
    SumChoose2(ContingencyMatrix(lt, lp)) * Choose2(Len(lt))
        = SumChoose2(RowSums(lt, lp)) * SumChoose2(ColSums(lt, lp))

\* a partition with a block for every point, and one with a block for all
Discrete(labels) == Cardinality(Unique(labels)) = Len(labels)
OneBlock(labels) == Cardinality(Unique(labels)) = 1

\* C16: for label lists of equal length N >= 2, max_index = expected_index only
\* when both partitions are all singletons or both are one block; then
\* pairs_together = expected_index and adjusted_rand_score returns 1.0.
C16_DegenerateIsPerfect ==
    (RandCellRan /\ Len(TrueL) = Len(PredL) /\ Len(TrueL) >= 2
       /\ MaxIsExpected(TrueL, PredL)) =>
        /\ TogetherIsExpected(TrueL, PredL)
        /\ out.res[2] = Ok(QOne)
        /\ \/ Discrete(TrueL) /\ Discrete(PredL)
           \/ OneBlock(TrueL) /\ OneBlock(PredL)

\* three points, each with a label and a cluster of its own: no pair together
C16_Witness ==
    /\ RandCellRan
    /\ Len(TrueL) = 3 /\ Len(PredL) = 3
    /\ Discrete(TrueL) /\ Discrete(PredL)
    /\ MaxIsExpected(TrueL, PredL)
    /\ out.res[2] = Ok(QOne)

----------------------------------------------------------------------------
(* The cells executed in any order.                                         *)

DistanceCells == {"10403d1e", "247c9c9e", "5c4b5a72"}

\* the call of a distance-based cell
Metric(cell, X, L) ==
    CASE cell = "10403d1e" -> silhouette_score(X, L)
      [] cell = "247c9c9e" -> davies_bouldin_score(X, L)
      [] cell = "5c4b5a72" -> calinski_harabasz_score(X, L)

C17_LabelsMatchDataOnlyAfterDataCell ==
    /\ labels_from \in {"c277aa40", "45de1db1"} =>
           (predicted_labels = Def(PredictedLabelsLiteral) /\ Len(PredL) = 17)
    /\ labels_from = "05eaf5da" =>
           (predicted_labels = Def(BlobsLabels) /\ Len(PredL) = Len(DataX))
    /\ (out.cell \in DistanceCells /\ out.res[1].exc # "NameError") =>
           /\ data # Undefined /\ predicted_labels # Undefined
           /\ (Len(DataL) = Len(DataX)) <=> (labels_from = "05eaf5da")
           /\ labels_from = "05eaf5da" => out.res[1].ok
           /\ labels_from # "05eaf5da" =>
                  out.res[1] = Raise("ValueError", "check_X_y")

\* the silhouette cell executed again after the Rand cell was: 17 cluster
\* identifiers for the rows of data, and a score bound from the first execution
C17_Witness ==
    /\ out.cell = "10403d1e"
    /\ labels_from = "c277aa40"
    /\ score # Undefined
    /\ Len(DataL) = 17 /\ Len(DataX) # 17
    /\ out.res[1] = Raise("ValueError", "check_X_y")

====
